---- MODULE Spec2Model ----
(***************************************************************************)
(* Model of the createAd service of src/index.py: one FastAPI endpoint     *)
(* that fetches a product page, extracts six fields, appends them to a CSV *)
(* log and composes an ad sentence from one of five templates.             *)
(*                                                                         *)
(* Texts. A text is a sequence of chunks (strings); the string it stands   *)
(* for is the concatenation of its chunks.  Texts that the code splits,    *)
(* strips or searches (urls, node texts, attribute values) are written one *)
(* character per chunk, so that those operations act on characters.        *)
(* Fixed literals of the code that are only concatenated and compared are  *)
(* written as one chunk.  Python's None is the one-chunk value None, which *)
(* no character text equals.                                               *)
(***************************************************************************)
EXTENDS Integers, Sequences, FiniteSets, TLC

\* Number of requests the clients submit in a behaviour.
NumRequests == 2

Requests == 1..NumRequests

----------------------------------------------------------------------------
\* Python values and string operations

None == <<"None">>

\* bool(v) for v a str or None
Truthy(v) == v # None /\ v # <<>>

\* f"{v}" for v a str or None
Str(v) == IF v = None THEN <<"N", "o", "n", "e">> ELSE v

Whitespace == {" ", "\t", "\n"}

RECURSIVE LStrip(_)
LStrip(s) == IF s # <<>> /\ Head(s) \in Whitespace THEN LStrip(Tail(s)) ELSE s

RECURSIVE RStrip(_)
RStrip(s) ==
    IF s # <<>> /\ s[Len(s)] \in Whitespace
    THEN RStrip(SubSeq(s, 1, Len(s) - 1))
    ELSE s

\* str.strip()
Strip(s) == RStrip(LStrip(s))

\* pat occurs in s at position i
MatchAt(s, i, pat) ==
    /\ i + Len(pat) - 1 <= Len(s)
    /\ \A j \in 1..Len(pat) : s[i + j - 1] = pat[j]

RECURSIVE SplitFrom(_, _, _, _)
SplitFrom(s, sep, i, cur) ==
    IF i > Len(s) THEN <<cur>>
    ELSE IF MatchAt(s, i, sep)
         THEN <<cur>> \o SplitFrom(s, sep, i + Len(sep), <<>>)
         ELSE SplitFrom(s, sep, i + 1, Append(cur, s[i]))

\* str.split(sep): the list of parts, sep non-empty
Split(s, sep) == SplitFrom(s, sep, 1, <<>>)

RECURSIVE ReplaceFrom(_, _, _, _)
ReplaceFrom(s, old, new, i) ==
    IF i > Len(s) THEN <<>>
    ELSE IF MatchAt(s, i, old)
         THEN new \o ReplaceFrom(s, old, new, i + Len(old))
         ELSE <<s[i]>> \o ReplaceFrom(s, old, new, i + 1)

\* str.replace(old, new), old non-empty
Replace(s, old, new) == ReplaceFrom(s, old, new, 1)

\* s starts with pre
StartsWith(s, pre) == MatchAt(s, 1, pre)

\* sub occurs in s
Contains(s, sub) == \E i \in 1..Len(s) : MatchAt(s, i, sub)

----------------------------------------------------------------------------
\* The extractor (scrape_amazon_product)

\* select_one found no node
Absent == <<"absent">>
\* the node was found but lacks the attribute read from it
NoAttr == <<"noattr">>

NoTitle == <<"No title available">>
NoDescription == <<"No description available">>
OutOf5 == <<"o", "u", "t", " ", "o", "f", " ", "5", " ", "s", "t", "a", "r", "s">>
WwwAmazon == <<"w", "w", "w", ".", "a", "m", "a", "z", "o", "n">>
Amazon == <<"A", "m", "a", "z", "o", "n">>
SlashSlash == <<"/", "/">>
Slash == <<"/">>

\* a page is the response of the fetch: its HTTP status and, for each of the
\* five anchors, Absent or the node's text (rating, image: the attribute's
\* value, or NoAttr)
Title(p) == IF p.title # Absent THEN Strip(p.title) ELSE NoTitle

RatingText(p) ==
    IF p.rating # Absent
    THEN (IF p.rating = NoAttr THEN <<>> ELSE p.rating)
    ELSE None

Rating(p) ==
    IF Truthy(RatingText(p))
    THEN Strip(Replace(RatingText(p), OutOf5, <<>>))
    ELSE None

\* a price that is the empty string when its node is missing
PriceOrEmpty(p) == IF p.price # Absent THEN Strip(p.price) ELSE <<>>

Price(p) == IF p.price # Absent THEN Strip(p.price) ELSE None

Image(p) ==
    IF p.image # Absent
    THEN (IF p.image = NoAttr THEN None ELSE p.image)
    ELSE None

Description(p) == IF p.description # Absent THEN Strip(p.description) ELSE None

\* url.split('//')[1] raises IndexError when the url holds no '//'
BrandRaises(url) == Len(Split(url, SlashSlash)) < 2

BrandName(url) ==
    Replace(Split(Split(url, SlashSlash)[2], Slash)[1], WwwAmazon, Amazon)

\* the dict handed to save_to_csv
ProductData(p, url) ==
    [title |-> Title(p), rating |-> Rating(p), price |-> Price(p),
     image |-> Image(p), description |-> Description(p), url |-> url]

\* the dict scrape_amazon_product returns
ScrapeResult(p, url) ==
    [brandName |-> BrandName(url),
     productName |-> Title(p),
     productDescription |->
         IF Truthy(Description(p)) THEN Description(p) ELSE NoDescription,
     productImage |-> Image(p),
     productPrice |-> Price(p),
     productRating |-> Rating(p)]

----------------------------------------------------------------------------
\* The log (save_to_csv)

Header ==
    << <<"Title">>, <<"Rating">>, <<"Price">>, <<"Image URL">>,
       <<"Description">>, <<"Product URL">> >>

\* csv.writer writes None as the empty field
CsvCell(v) == IF v = None THEN <<>> ELSE v

\* a row with the rating written before the title
CsvRowRatingFirst(d) ==
    << CsvCell(d.rating), CsvCell(d.title), CsvCell(d.price),
       CsvCell(d.image), CsvCell(d.description), CsvCell(d.url) >>

CsvRow(d) ==
    << CsvCell(d.title), CsvCell(d.rating), CsvCell(d.price),
       CsvCell(d.image), CsvCell(d.description), CsvCell(d.url) >>

----------------------------------------------------------------------------
\* The ad composer (get_target_description, generate_simple_ad)

descriptions ==
    ("female" :>
        (("9-18" :> <<"The ad should appeal to young girls with a focus on fun, color, and trendy designs.">>) @@
         ("18-25" :> <<"The ad should emphasize style, comfort, and empowerment, as young women in this age group often look for products that complement their personal style and lifestyle.">>) @@
         ("25-40" :> <<"For women in this age group, the ad should focus on a balance of comfort, elegance, and professional appeal.">>) @@
         ("40-60" :> <<"The ad should emphasize comfort, sophistication, and practicality, appealing to women who value quality and timeless style.">>) @@
         ("60+" :> <<"The ad should highlight comfort, elegance, and the products ability to bring relaxation and ease to daily life.">>))) @@
    ("male" :>
        (("9-18" :> <<"The ad should appeal to young boys or teens, focusing on energy, coolness, and modern trends.">>) @@
         ("18-25" :> <<"The ad should focus on style, confidence, and boldness, appealing to young men who are exploring their identity and fashion preferences.">>) @@
         ("25-40" :> <<"For men in this age group, the ad should emphasize practicality, style, and versatility.">>) @@
         ("40-60" :> <<"The ad should appeal to men with a focus on quality, durability, and classic style, suitable for both personal and professional settings.">>) @@
         ("60+" :> <<"The ad should highlight comfort, ease of use, and thoughtful gifts for loved ones.">>))) @@
    ("others" :>
        ("*" :> <<"The ad should emphasize inclusivity, comfort, and a sense of belonging, appealing to individuals of diverse identities who value style and self-expression across all age groups.">>))

\* dict.get(key, default)
Get(d, key, default) == IF key \in DOMAIN d THEN d[key] ELSE default

\* get_target_description without the early return for 'others'
get_target_description_lookup_only(gender, age_group) ==
    Get(Get(descriptions, gender, <<>>), age_group, <<>>)

get_target_description(gender, age_group) ==
    IF gender = "others"
    THEN descriptions["others"]["*"]
    ELSE Get(Get(descriptions, gender, <<>>), age_group, <<>>)

rating_text(product_data) ==
    IF Truthy(product_data.productRating)
    THEN <<" Rated ">> \o product_data.productRating \o <<" stars!">>
    ELSE <<>>

ad_templates(product_data) ==
    << <<"Discover ">> \o product_data.productName \o <<"! ">>
           \o rating_text(product_data) \o <<" Available now at ">>
           \o Str(product_data.productPrice) \o <<".">>,
       <<"Introducing the amazing ">> \o product_data.productName
           \o <<" - perfect for you! ">> \o rating_text(product_data),
       <<"Don't miss out on ">> \o product_data.productName
           \o <<"! Get yours at ">> \o Str(product_data.productPrice) \o <<".">>,
       <<"Experience the excellence of ">> \o product_data.productName
           \o <<"! ">> \o rating_text(product_data),
       <<"Transform your life with ">> \o product_data.productName
           \o <<"! Now only ">> \o Str(product_data.productPrice) \o <<"!">> >>

\* the templates random.choice draws from, by index
TemplateIndexes == DOMAIN ad_templates([productName |-> <<>>, productPrice |-> None, productRating |-> None])

\* generate_simple_ad with random.choice drawing template k
generate_simple_ad(product_data, gender, age_group, k) ==
    LET target_desc == get_target_description(gender, age_group)
        base_ad == ad_templates(product_data)[k]
    IN  IF target_desc # <<>>
        THEN base_ad \o <<"\n">> \o target_desc
        ELSE base_ad

----------------------------------------------------------------------------
\* Inputs

UrlEmpty == <<>>
\* https://www.amazon.com/dp/X
UrlAmazon ==
    <<"h", "t", "t", "p", "s", ":", "/", "/", "w", "w", "w", ".", "a", "m", "a",
      "z", "o", "n", ".", "c", "o", "m", "/", "d", "p", "/", "X">>
\* http://shop.io//a
UrlShop ==
    <<"h", "t", "t", "p", ":", "/", "/", "s", "h", "o", "p", ".", "i", "o", "/",
      "/", "a">>
\* amazon.com/dp/X
UrlNoScheme ==
    <<"a", "m", "a", "z", "o", "n", ".", "c", "o", "m", "/", "d", "p", "/", "X">>
\* ftp://h/x
UrlFtp == <<"f", "t", "p", ":", "/", "/", "h", "/", "x">>

Urls == {UrlEmpty, UrlAmazon, UrlNoScheme}
UrlsWide == {UrlEmpty, UrlAmazon, UrlShop, UrlNoScheme, UrlFtp}

Genders == {"others", "male"}
GendersWide == {"male", "female", "others", "robot"}

AgeGroups == {"18-25"}
AgeGroupsWide == {"9-18", "18-25", "60+", "*", "7"}

\* " Mug ", "4.5 out of 5 stars", " $9", "i.png", " Blue mug. "
TextMug == <<" ", "M", "u", "g", " ">>
TextBlank == <<" ">>
TextStars ==
    <<"4", ".", "5", " ", "o", "u", "t", " ", "o", "f", " ", "5", " ", "s", "t",
      "a", "r", "s">>
TextPrice == <<" ", "$", "9">>
TextImage == <<"i", ".", "p", "n", "g">>
TextBullets == <<" ", "B", "l", "u", "e", " ", "m", "u", "g", ".", " ">>

\* a product page with every anchor, served with status 200
PageFull ==
    [status |-> 200, title |-> TextMug, rating |-> TextStars,
     price |-> TextPrice, image |-> TextImage, description |-> TextBullets]

\* a page with none of the anchors, served with status 404
PageBare ==
    [status |-> 404, title |-> Absent, rating |-> Absent, price |-> Absent,
     image |-> Absent, description |-> Absent]

Pages == {PageFull, PageBare}

PagesWide ==
    [status : {200, 404, 503},
     title : {Absent, TextMug, TextBlank},
     rating : {Absent, NoAttr, TextStars},
     price : {Absent, TextPrice},
     image : {Absent, NoAttr, TextImage},
     description : {Absent, TextBullets, TextBlank}]

\* str(error) of what requests.get raises for a url it accepts, and for one
\* it does not
NetworkErrors == {<<"Connection refused">>, <<"Read timed out">>}
UrlErrors == {<<"No connection adapters were found">>}

\* requests.get sends a request only to an http:// or https:// url with a host
Fetchable(url) ==
    \E pre \in {<<"h", "t", "t", "p", ":", "/", "/">>,
                <<"h", "t", "t", "p", "s", ":", "/", "/">>} :
        /\ StartsWith(url, pre)
        /\ Len(url) > Len(pre)
        /\ url[Len(pre) + 1] \notin {"/", "?", "#"}

\* a fetch that raised on an error status, as response.raise_for_status() does
StatusRaisesFrom400(status) == status >= 400

\* the fetch raises on the status of the response: never (the code does not
\* look at response.status_code and does not call raise_for_status)
StatusRaises(status) == FALSE

----------------------------------------------------------------------------
\* State

VARIABLES
    pc,         \* where each request is in create_ad
    req,        \* the AdRequest of each request
    page,       \* the response its fetch returned
    product,    \* product_data and the dict scrape_amazon_product returns
    file_exists,\* save_to_csv's local file_exists
    buffer,     \* rows written to the open file object, not yet flushed
    resp,       \* the response sent to the caller
    running,    \* the requests whose handler has started and not finished
    fileExists, \* product_details.csv exists
    file,       \* its rows
    rowOwner,   \* history: for each row of file, the request that wrote it
                \* (0 for a header row)
    stdout,     \* the lines printed
    netCalls,   \* history: number of requests.get calls of each request
    cause       \* history: str(error) of the exception its scrape raised

vars ==
    <<pc, req, page, product, file_exists, buffer, resp, running, fileExists,
      file, rowOwner, stdout, netCalls, cause>>

NoReq == [url |-> <<>>, gender |-> "", ageGroup |-> ""]
NoPage ==
    [status |-> 0, title |-> Absent, rating |-> Absent, price |-> Absent,
     image |-> Absent, description |-> Absent]
NoData ==
    [title |-> None, rating |-> None, price |-> None, image |-> None,
     description |-> None, url |-> None]
NoResult ==
    [brandName |-> None, productName |-> None, productDescription |-> None,
     productImage |-> None, productPrice |-> None, productRating |-> None]
NoProduct == [data |-> NoData, result |-> NoResult]
NoBody ==
    [brandName |-> None, productName |-> None, productDescription |-> None,
     productImage |-> None, productPrice |-> None, productRating |-> None,
     adCopy |-> None]
NoResp == [status_code |-> 0, detail |-> <<>>, body |-> NoBody]
NoCause == <<>>

\* print(f'{prefix}{text}') or, for the scraped dict, print(f'{prefix}{data}')
Line(prefix, text, data) == [prefix |-> prefix, text |-> text, data |-> data]

Init ==
    /\ pc = [r \in Requests |-> "idle"]
    /\ req = [r \in Requests |-> NoReq]
    /\ page = [r \in Requests |-> NoPage]
    /\ product = [r \in Requests |-> NoProduct]
    /\ file_exists = [r \in Requests |-> FALSE]
    /\ buffer = [r \in Requests |-> <<>>]
    /\ resp = [r \in Requests |-> NoResp]
    /\ running = {}
    /\ fileExists = FALSE
    /\ file = <<>>
    /\ rowOwner = <<>>
    /\ stdout = {}
    /\ netCalls = [r \in Requests |-> 0]
    /\ cause = [r \in Requests |-> NoCause]

----------------------------------------------------------------------------
\* Errors

\* raise HTTPException(status_code, detail)
HTTPException(status_code, detail) ==
    [status_code |-> status_code, detail |-> detail, body |-> NoBody]

\* str(error) of an HTTPException: Starlette renders it "<status_code>: <detail>"
StrHTTPException(e) == <<ToString(e.status_code), ": ">> \o e.detail

\* a scrape whose HTTPException carried the text of its cause
ScrapeFailedWithCause(error) ==
    HTTPException(500, <<"Failed to scrape the product data: ">> \o error)

\* scrape_amazon_product's except clause, for the error it caught
ScrapeFailed(error) == HTTPException(500, <<"Failed to scrape the product data">>)

\* create_ad's except clause, for the error it caught
CreateAdFailed(error) ==
    HTTPException(500, <<"Error generating ad: ">> \o StrHTTPException(error))

\* an exception with text error is raised inside scrape_amazon_product's try:
\* both except clauses run and the request ends
Fail(r, error) ==
    /\ stdout' = stdout \cup
           {Line("Error scraping product data: ", error, NoResult),
            Line("Error generating ad: ",
                 StrHTTPException(ScrapeFailed(error)), NoResult)}
    /\ resp' = [resp EXCEPT ![r] = CreateAdFailed(ScrapeFailed(error))]
    /\ cause' = [cause EXCEPT ![r] = error]
    /\ pc' = [pc EXCEPT ![r] = "done"]
    /\ running' = running \ {r}

----------------------------------------------------------------------------
\* Scheduling

\* handlers admitted concurrently, as a pool of threads would run them
LoopFreeAlways == TRUE

\* The event loop can start a handler.  create_ad and scrape_amazon_product
\* are coroutines that never suspend (requests.get and the file writes are
\* blocking calls), and uvicorn.run serves the app from one event loop: a
\* handler that started runs to its end before another one starts.
LoopFree == running = {}

\* not request.url, never true
UrlMissingNever(url) == FALSE

\* not request.url
UrlMissing(url) == url = <<>>

----------------------------------------------------------------------------
\* Operations

\* a client posts request r, after the requests numbered below it
SubmitFrom(r, urls, genders, ageGroups) ==
    /\ pc[r] = "idle"
    /\ \A q \in Requests : q < r => pc[q] # "idle"
    /\ \E u \in urls, g \in genders, a \in ageGroups :
           req' = [req EXCEPT ![r] = [url |-> u, gender |-> g, ageGroup |-> a]]
    /\ pc' = [pc EXCEPT ![r] = "pending"]
    /\ UNCHANGED <<page, product, file_exists, buffer, resp, running,
                   fileExists, file, rowOwner, stdout, netCalls, cause>>

Submit(r) == SubmitFrom(r, Urls, Genders, AgeGroups)

\* create_ad up to the call of requests.get: the url check, the first print
Start(r) ==
    /\ pc[r] = "pending"
    /\ LoopFree
    /\ IF UrlMissing(req[r].url)
       THEN /\ resp' = [resp EXCEPT ![r] =
                            HTTPException(400, <<"No URL provided">>)]
            /\ pc' = [pc EXCEPT ![r] = "done"]
            /\ UNCHANGED <<running, stdout, netCalls>>
       ELSE /\ stdout' = stdout \cup
                    {Line("Received URL: ", req[r].url, NoResult)}
            /\ running' = running \cup {r}
            /\ netCalls' = [netCalls EXCEPT ![r] = @ + 1]
            /\ pc' = [pc EXCEPT ![r] = "fetching"]
            /\ UNCHANGED resp
    /\ UNCHANGED <<req, page, product, file_exists, buffer, fileExists, file,
                   rowOwner, cause>>

\* requests.get returns a response and BeautifulSoup parses its text
FetchReturnFrom(r, pages) ==
    /\ pc[r] = "fetching"
    /\ Fetchable(req[r].url)
    /\ \E p \in pages :
           /\ page' = [page EXCEPT ![r] = p]
           /\ IF StatusRaises(p.status)
              THEN Fail(r, <<ToString(p.status), " Error">>)
              ELSE /\ pc' = [pc EXCEPT ![r] = "extract"]
                   /\ UNCHANGED <<resp, running, stdout, cause>>
    /\ UNCHANGED <<req, product, file_exists, buffer, fileExists, file,
                   rowOwner, netCalls>>

FetchReturn(r) == FetchReturnFrom(r, Pages)

\* requests.get raises
FetchRaise(r) ==
    /\ pc[r] = "fetching"
    /\ \E error \in (IF Fetchable(req[r].url) THEN NetworkErrors ELSE UrlErrors) :
           Fail(r, error)
    /\ UNCHANGED <<req, page, product, file_exists, buffer, fileExists, file,
                   rowOwner, netCalls>>

\* requests.get never returns: it is called without a timeout
FetchHang(r) ==
    /\ pc[r] = "fetching"
    /\ Fetchable(req[r].url)
    /\ pc' = [pc EXCEPT ![r] = "hung"]
    /\ UNCHANGED <<req, page, product, file_exists, buffer, resp, running,
                   fileExists, file, rowOwner, stdout, netCalls, cause>>

\* the five lookups, the brand name and product_data
Extract(r) ==
    /\ pc[r] = "extract"
    /\ IF BrandRaises(req[r].url)
       THEN /\ Fail(r, <<"list index out of range">>)
            /\ UNCHANGED product
       ELSE /\ product' = [product EXCEPT ![r] =
                   [data |-> ProductData(page[r], req[r].url),
                    result |-> ScrapeResult(page[r], req[r].url)]]
            /\ pc' = [pc EXCEPT ![r] = "save_check"]
            /\ UNCHANGED <<resp, running, stdout, cause>>
    /\ UNCHANGED <<req, page, file_exists, buffer, fileExists, file, rowOwner,
                   netCalls>>

\* save_to_csv: file_exists = os.path.isfile(filename)
SaveCheck(r) ==
    /\ pc[r] = "save_check"
    /\ file_exists' = [file_exists EXCEPT ![r] = fileExists]
    /\ pc' = [pc EXCEPT ![r] = "save_open"]
    /\ UNCHANGED <<req, page, product, buffer, resp, running, fileExists, file,
                   rowOwner, stdout, netCalls, cause>>

\* save_to_csv: open(filename, mode="a") creates the file when there is none
SaveOpen(r) ==
    /\ pc[r] = "save_open"
    /\ fileExists' = TRUE
    /\ pc' = [pc EXCEPT ![r] = "save_write"]
    /\ UNCHANGED <<req, page, product, file_exists, buffer, resp, running, file,
                   rowOwner, stdout, netCalls, cause>>

\* save_to_csv: the writerow calls, into the file object's buffer
SaveWrite(r) ==
    /\ pc[r] = "save_write"
    /\ buffer' = [buffer EXCEPT ![r] =
           (IF ~file_exists[r] THEN <<Header>> ELSE <<>>)
               \o <<CsvRow(product[r].data)>>]
    /\ pc' = [pc EXCEPT ![r] = "save_close"]
    /\ UNCHANGED <<req, page, product, file_exists, resp, running, fileExists,
                   file, rowOwner, stdout, netCalls, cause>>

\* save_to_csv: leaving the with block flushes the buffer to the end of the
\* file; scrape_amazon_product returns and create_ad prints the dict
SaveClose(r) ==
    /\ pc[r] = "save_close"
    /\ file' = file \o buffer[r]
    /\ rowOwner' = rowOwner \o
           [i \in 1..Len(buffer[r]) |->
               IF i < Len(buffer[r]) THEN 0 ELSE r]
    /\ buffer' = [buffer EXCEPT ![r] = <<>>]
    /\ stdout' = stdout \cup
           {Line("Scraped Product Data: ", <<>>, product[r].result)}
    /\ pc' = [pc EXCEPT ![r] = "compose"]
    /\ UNCHANGED <<req, page, product, file_exists, resp, running, fileExists,
                   netCalls, cause>>

\* a choice that passes over the templates with a price when there is none
ChoicesWithoutPrice(product_data) ==
    IF product_data.productPrice = None THEN {2, 4} ELSE TemplateIndexes

\* the templates random.choice(ad_templates) can draw for a record
Choices(product_data) == TemplateIndexes

\* generate_simple_ad drawing template k, and the response
ComposeWith(r, k) ==
    /\ pc[r] = "compose"
    /\ k \in Choices(product[r].result)
    /\ resp' = [resp EXCEPT ![r] =
           [status_code |-> 200, detail |-> <<>>,
            body |-> [brandName |-> product[r].result.brandName,
                      productName |-> product[r].result.productName,
                      productDescription |->
                          product[r].result.productDescription,
                      productImage |-> product[r].result.productImage,
                      productPrice |-> product[r].result.productPrice,
                      productRating |-> product[r].result.productRating,
                      adCopy |-> generate_simple_ad(product[r].result,
                                     req[r].gender, req[r].ageGroup, k)]]]
    /\ pc' = [pc EXCEPT ![r] = "done"]
    /\ running' = running \ {r}
    /\ UNCHANGED <<req, page, product, file_exists, buffer, fileExists, file,
                   rowOwner, stdout, netCalls, cause>>

Compose(r) == \E k \in TemplateIndexes : ComposeWith(r, k)

\* a step of the handler of request r
Handle(r) ==
    \/ Start(r)
    \/ FetchReturn(r)
    \/ FetchRaise(r)
    \/ FetchHang(r)
    \/ Extract(r)
    \/ SaveCheck(r)
    \/ SaveOpen(r)
    \/ SaveWrite(r)
    \/ SaveClose(r)
    \/ Compose(r)

Next == \E r \in Requests : Submit(r) \/ Handle(r)

Spec == Init /\ [][Next]_vars

\* every handler that can take a step takes one
FairSpec == Spec /\ \A r \in Requests : WF_vars(Handle(r))

\* one request, drawn with the page it fetches from the wide input sets
NextOne ==
    \/ SubmitFrom(1, UrlsWide, GendersWide, AgeGroupsWide)
    \/ Start(1)
    \/ FetchReturnFrom(1, PagesWide)
    \/ FetchRaise(1)
    \/ FetchHang(1)
    \/ Extract(1)
    \/ SaveCheck(1)
    \/ SaveOpen(1)
    \/ SaveWrite(1)
    \/ SaveClose(1)
    \/ Compose(1)

SpecOne == Init /\ [][NextOne]_vars

----------------------------------------------------------------------------
\* Properties

Range(f) == {f[i] : i \in DOMAIN f}

\* request r has been answered
Done(r) == pc[r] = "done"

\* the scrape of request r returned its dict
Extracted(r) == pc[r] = "compose" \/ (Done(r) /\ resp[r].status_code = 200)

IsPrefix(s, t) == Len(s) <= Len(t) /\ SubSeq(t, 1, Len(s)) = s

\* C1: a request whose url is empty is answered 400 "No URL provided" without
\* any requests.get call and without a row of the log being its own, and the
\* step that answers it leaves the log and the count of fetches as they were,
\* whatever its gender and ageGroup and whatever was served before it.
C1_EmptyUrlRejected ==
    /\ [](\A r \in Requests :
            (req[r].url = <<>> /\ pc[r] \notin {"idle", "pending"}) =>
                /\ Done(r)
                /\ resp[r].status_code = 400
                /\ netCalls[r] = 0
                /\ r \notin Range(rowOwner))
    /\ [][\A r \in Requests :
            (req[r].url = <<>> /\ pc[r] = "pending" /\ pc'[r] # "pending") =>
                /\ resp'[r].status_code = 400
                /\ file' = file
                /\ fileExists' = fileExists
                /\ netCalls' = netCalls]_vars

\* an empty-url request was rejected after another request had written the log
C1_Witness ==
    \E r \in Requests :
        /\ req[r].url = <<>>
        /\ Done(r)
        /\ resp[r].status_code = 400
        /\ Len(file) >= 2

GenericDetail ==
    <<"Error generating ad: ", "500", ": ", "Failed to scrape the product data">>

\* C2: a request with a non-empty url whose scrape raised is answered 500 with
\* one fixed detail, the same whatever was raised; the text of what was raised
\* is no part of the detail and is a line of standard output.
C2_GenericServerError ==
    \A r \in Requests :
        /\ (Done(r) /\ cause[r] # NoCause) =>
               /\ req[r].url # <<>>
               /\ resp[r].status_code = 500
               /\ resp[r].detail = GenericDetail
               /\ ~Contains(resp[r].detail, cause[r])
               /\ Line("Error scraping product data: ", cause[r], NoResult)
                      \in stdout
        /\ (Done(r) /\ resp[r].status_code = 500) =>
               /\ cause[r] # NoCause
               /\ resp[r].body = NoBody

\* two requests failed for different causes
C2_Witness ==
    \E r, q \in Requests :
        /\ Done(r) /\ Done(q)
        /\ cause[r] \in NetworkErrors
        /\ cause[q] \in UrlErrors
        /\ resp[r] = resp[q]
        /\ resp[r].status_code = 500

\* number of rows of the log written by request r
RowsOf(r) == Cardinality({i \in DOMAIN rowOwner : rowOwner[i] = r})

\* C3: the log is empty only before the first save has flushed; otherwise its
\* first row is the header, no other row is, every row has six columns, and
\* the rows after the header are one whole row for each extraction that
\* returned and none for any other request.
C3_LogWellFormed ==
    /\ Len(rowOwner) = Len(file)
    /\ file = <<>> =>
           \/ ~fileExists
           \/ \E r \in Requests : pc[r] \in {"save_write", "save_close"}
    /\ file # <<>> =>
           /\ file[1] = Header
           /\ \A i \in 2..Len(file) : file[i] # Header /\ rowOwner[i] # 0
    /\ \A i \in 1..Len(file) : Len(file[i]) = 6
    /\ \A r \in Requests : RowsOf(r) = (IF Extracted(r) THEN 1 ELSE 0)
    /\ \A i \in 1..Len(file) :
           rowOwner[i] # 0 => file[i] = CsvRow(product[rowOwner[i]].data)

\* the request submitted second wrote the header and its row while the first
\* one waited, and the first one's row follows
C3_Witness ==
    /\ Len(file) = 3
    /\ rowOwner[2] = 2
    /\ rowOwner[3] = 1

\* the row of each page of Pages fetched from url
ExpectedRow(p, url) ==
    IF p = PageFull
    THEN << <<"M", "u", "g">>, <<"4", ".", "5">>, <<"$", "9">>,
            <<"i", ".", "p", "n", "g">>,
            <<"B", "l", "u", "e", " ", "m", "u", "g", ".">>, url >>
    ELSE << <<"No title available">>, <<>>, <<>>, <<>>, <<>>, url >>

\* C5: the log has one data row for each extraction that returned, written
\* before the ad is composed and holding title, rating, price, image,
\* description and url in that order (an absent value as the empty field); a
\* request answered 400 or 500 has no row; and no step changes or removes a
\* row that was written.
C5_OneRowPerExtraction ==
    /\ [](/\ Len(file) =
               Cardinality({r \in Requests : Extracted(r)})
                   + (IF file = <<>> THEN 0 ELSE 1)
          /\ \A r \in Requests :
                 /\ Extracted(r) =>
                        \E i \in 2..Len(file) :
                            /\ rowOwner[i] = r
                            /\ file[i] = ExpectedRow(page[r], req[r].url)
                 /\ (Done(r) /\ resp[r].status_code # 200) =>
                        r \notin Range(rowOwner))
    /\ [][IsPrefix(file, file')]_vars

\* one request's extraction of the bare page is the only data row of the log
\* while another request has been answered 500
C5_Witness ==
    \E r, q \in Requests :
        /\ Extracted(r)
        /\ page[r] = PageBare
        /\ Done(q)
        /\ resp[q].status_code = 500
        /\ Len(file) = 2

\* C4: every request that was submitted is eventually answered, unless its
\* own fetch is the one that never returns.
C4_RequestsIndependent ==
    \A r \in Requests : (pc[r] = "pending") ~> (pc[r] \in {"done", "hung"})

\* the brand of each url of UrlsWide that can be fetched
ExpectedBrand(url) ==
    IF url = UrlAmazon
    THEN <<"A", "m", "a", "z", "o", "n", ".", "c", "o", "m">>
    ELSE <<"s", "h", "o", "p", ".", "i", "o">>

\* C6: every 200 response holds a brandName and a productName that are
\* neither absent nor empty: productName is the stripped title or, when the
\* title node is missing, the placeholder, and brandName is the url's host
\* with www.amazon written Amazon.
C6_NamesPresent ==
    \A r \in Requests :
        (Done(r) /\ resp[r].status_code = 200) =>
            /\ resp[r].body.brandName # None
            /\ resp[r].body.brandName # <<>>
            /\ resp[r].body.brandName = ExpectedBrand(req[r].url)
            /\ resp[r].body.productName # None
            /\ resp[r].body.productName # <<>>
            /\ resp[r].body.productName =
                   (IF page[r].title = Absent
                    THEN <<"No title available">>
                    ELSE Strip(page[r].title))

\* the fetch of request r returned a response
Fetched(r) == page[r].status # 0

\* C7: once the fields of a fetched page are extracted, a missing rating,
\* price or image node leaves that field None (not the empty string); for a
\* page with none of the five nodes the name and the description are their
\* placeholders and the other three fields are None; and the request of a
\* fetched page is never answered 500.
C7_MissingAnchorsAbsent ==
    \A r \in Requests :
        /\ (Fetched(r) /\ pc[r] \notin {"extract"}) =>
               /\ product[r] # NoProduct
               /\ cause[r] = NoCause
               /\ page[r].rating = Absent =>
                      product[r].result.productRating = None
               /\ page[r].price = Absent =>
                      product[r].result.productPrice = None
               /\ page[r].image = Absent =>
                      product[r].result.productImage = None
               /\ (/\ page[r].title = Absent
                   /\ page[r].rating = Absent
                   /\ page[r].price = Absent
                   /\ page[r].image = Absent
                   /\ page[r].description = Absent) =>
                      /\ product[r].result.productName =
                             <<"No title available">>
                      /\ product[r].result.productDescription =
                             <<"No description available">>
        /\ (Fetched(r) /\ Done(r)) =>
               /\ resp[r].status_code = 200
               /\ page[r].rating = Absent => resp[r].body.productRating = None
               /\ page[r].price = Absent => resp[r].body.productPrice = None
               /\ page[r].image = Absent => resp[r].body.productImage = None

\* a page with no node at all was answered 200 with placeholders and Nones
C7_Witness ==
    \E r \in Requests :
        /\ Done(r)
        /\ Fetched(r)
        /\ page[r].title = Absent
        /\ page[r].rating = Absent
        /\ page[r].price = Absent
        /\ page[r].image = Absent
        /\ page[r].description = Absent
        /\ resp[r].status_code = 200
        /\ resp[r].body.productName = <<"No title available">>
        /\ resp[r].body.productPrice = None

FiveAges == {"9-18", "18-25", "25-40", "40-60", "60+"}

Universal ==
    <<"The ad should emphasize inclusivity, comfort, and a sense of belonging, appealing to individuals of diverse identities who value style and self-expression across all age groups.">>

\* the second line of the ad for a pair: the universal sentence for 'others',
\* the table's sentence for male or female with one of the five age groups,
\* nothing otherwise
ExpectedSecondLine(gender, ageGroup) ==
    IF gender = "others" THEN <<"\n">> \o Universal
    ELSE IF gender \in {"male", "female"} /\ ageGroup \in FiveAges
         THEN <<"\n">> \o descriptions[gender][ageGroup]
         ELSE <<>>

\* how each of the five templates begins
Lead ==
    <<"Discover ", "Introducing the amazing ", "Don't miss out on ",
      "Experience the excellence of ", "Transform your life with ">>

\* C8: a request whose extraction returned is always answered 200 (compose
\* does not fail), and its adCopy is one of the five templates filled from the
\* record, beginning with that template's opening words and the product name,
\* followed by a newline and the targeting sentence exactly when the pair has
\* one: always the universal sentence for 'others', the table's sentence for
\* a recognised pair, no second line for any other pair.
C8_ComposeTemplates ==
    \A r \in Requests :
        /\ (Done(r) /\ product[r] # NoProduct) => resp[r].status_code = 200
        /\ (Done(r) /\ resp[r].status_code = 200) =>
               \E k \in 1..5 :
                   /\ resp[r].body.adCopy =
                          ad_templates(product[r].result)[k]
                              \o ExpectedSecondLine(req[r].gender,
                                                    req[r].ageGroup)
                   /\ StartsWith(resp[r].body.adCopy,
                                 <<Lead[k]>> \o resp[r].body.productName)

\* 'others' with an age group outside the table got the universal sentence
\* on a second line
C8_Witness ==
    \E r \in Requests :
        /\ Done(r)
        /\ resp[r].status_code = 200
        /\ req[r].gender = "others"
        /\ req[r].ageGroup = "7"
        /\ resp[r].body.adCopy[Len(resp[r].body.adCopy)] = Universal[1]
        /\ resp[r].body.adCopy[Len(resp[r].body.adCopy) - 1] = "\n"

\* C9: whatever the status of the response the fetch returned, a request whose
\* url holds '//' is not failed: once answered it is answered 200, with one
\* row in the log and the fields the same markup yields under status 200; a
\* 500 answer is given only to a request whose scrape raised, and a fetch that
\* returned raises nothing.
C9_StatusIgnored ==
    \A r \in Requests :
        /\ (Fetched(r) /\ Contains(req[r].url, SlashSlash)) =>
               /\ cause[r] = NoCause
               /\ pc[r] # "hung"
               /\ Done(r) =>
                      /\ resp[r].status_code = 200
                      /\ RowsOf(r) = 1
                      /\ product[r].result =
                             ScrapeResult([page[r] EXCEPT !.status = 200],
                                          req[r].url)
                      /\ resp[r].body.productName = product[r].result.productName
                      /\ resp[r].body.productPrice = product[r].result.productPrice
        /\ (Done(r) /\ resp[r].status_code = 500) =>
               /\ cause[r] # NoCause
               /\ ~Fetched(r)

\* a page served with status 503 and none of the anchors was answered 200
C9_Witness ==
    \E r \in Requests :
        /\ Done(r)
        /\ page[r].status = 503
        /\ page[r].title = Absent
        /\ resp[r].status_code = 200
        /\ resp[r].body.productName = <<"No title available">>
        /\ RowsOf(r) = 1

\* the rendering of None
NoneText == <<"N", "o", "n", "e">>

\* C10: with productPrice None every one of the five templates can be drawn,
\* and an ad drawn from a template with a price holds 'None' where the price
\* goes; with productRating None the rating clause is empty in every template
\* that has one.
C10_TemplatesWithoutPrice ==
    \A r \in Requests :
        /\ (pc[r] = "compose" /\ product[r].result.productPrice = None) =>
               \A k \in 1..5 : ENABLED ComposeWith(r, k)
        /\ (Done(r) /\ resp[r].status_code = 200) =>
               LET ad == resp[r].body.adCopy
                   name == resp[r].body.productName
               IN  /\ resp[r].body.productPrice = None =>
                          /\ ad[1] = Lead[1] =>
                                 Contains(ad, <<" Available now at ">>
                                                  \o NoneText \o <<".">>)
                          /\ ad[1] = Lead[3] =>
                                 Contains(ad, <<"! Get yours at ">>
                                                  \o NoneText \o <<".">>)
                          /\ ad[1] = Lead[5] =>
                                 Contains(ad, <<"! Now only ">>
                                                  \o NoneText \o <<"!">>)
                   /\ resp[r].body.productRating = None =>
                          /\ ~Contains(ad, <<" Rated ">>)
                          /\ ad[1] = Lead[1] =>
                                 StartsWith(ad, <<Lead[1]>> \o name
                                     \o <<"! ", " Available now at ">>)
                          /\ ad[1] \in {Lead[2], Lead[4]} =>
                                 \/ Len(ad) = Len(name) + 2
                                 \/ ad[Len(name) + 3] = "\n"

\* the first template was drawn for a record without price and rating
C10_Witness ==
    \E r \in Requests :
        /\ Done(r)
        /\ resp[r].status_code = 200
        /\ resp[r].body.productPrice = None
        /\ resp[r].body.productRating = None
        /\ resp[r].body.adCopy[1] = Lead[1]
        /\ Contains(resp[r].body.adCopy, NoneText)

====
